---- MODULE Spec2Model ----
(***************************************************************************)
(* maptalks.tileclip: the tile reprojection pipeline.                      *)
(*                                                                         *)
(*   src/src/tileget.ts     the fetch / cache / cancellation layer         *)
(*   src/unnamed/part_000   the planner, the resampler and tileTransform   *)
(*   src/unnamed/part_001   LRUCache                                       *)
(*                                                                         *)
(* Every promise reaction of the source is one action: other requests'     *)
(* reactions and cancelFetch may run between any two of them.              *)
(***************************************************************************)
EXTENDS Integers, Sequences, FiniteSets, TLC

VARIABLES
    reqs,            \* tileTransform requests: options, plan, loadCount, position
    fetches,         \* fetchTile / fetchTileBuffer calls, keyed by <<request, index>>
    CONTROLCACHE,    \* tileget.ts:23, task id -> sequence of AbortControllers
    tileImageCache,  \* tileget.ts:15, LRUCache<ImageBitmap>.data in Map order
    tileBufferCache, \* tileget.ts:18, LRUCache<ArrayBuffer>.data in Map order
    closed,          \* ImageBitmaps released by disposeImage
    dirty,           \* payload objects a caller has written to
    lru,             \* one LRUCache instance, driven operation by operation
    calc             \* one evaluation of a function of the pipeline: input, result

vars == <<reqs, fetches, CONTROLCACHE, tileImageCache, tileBufferCache,
          closed, dirty, lru, calc>>

(***************************************************************************)
(* Bounds of the model.                                                    *)
(***************************************************************************)
MaxReq == 2        \* concurrent tileTransform requests
CacheMax == 2      \* capacity of the two tile caches in the model
MaxCalls == 2      \* direct fetchTile / fetchTileBuffer calls
MaxLruOps == 5     \* operations applied to the LRUCache instance
OneZoom == 1       \* zooms 0..OneZoom of the single request
MaxTiles == 3      \* planned tiles of the single request
ZoomMax == 3       \* zooms 0..ZoomMax of getTileWithMaxZoom
SeamWidth == 3     \* columns of the raster of checkBoundaryBlank
SeamHeight == 2    \* rows of the raster of checkBoundaryBlank
MaxExtent == 3     \* extents 0..MaxExtent of the boxes of transformTiles
MaxLayout == 2     \* tiles of a layout_Tiles request

TaskIds == {"T", "U"}
NoTask == ""

Range(s) == {s[i] : i \in DOMAIN s}

\* null, where a payload object is expected
NoObj == <<-1, -1, -1>>

Min2(a, b) == IF a < b THEN a ELSE b
Max2(a, b) == IF a > b THEN a ELSE b

(***************************************************************************)
(* LRUCache (src/unnamed/part_001:6-112).  data is the Map in insertion    *)
(* order: a sequence of entries [k, v].  Every operator returns the new    *)
(* data and the payloads handed to onRemove, in call order.                *)
(***************************************************************************)
LRUkeys(data) == [i \in DOMAIN data |-> data[i].k]

LRUhas(data, key) == \E i \in DOMAIN data : data[i].k = key

LRUget(data, key) ==
    IF LRUhas(data, key)
    THEN (CHOOSE i \in DOMAIN data : data[i].k = key)
    ELSE 0

LRUdelete(data, key) == SelectSeq(data, LAMBDA e : e.k # key)

\* shrink() that removes without handing the payloads to onRemove
LRUshrinkSilent(data, max) ==
    IF Len(data) > max
    THEN [data    |-> SubSeq(data, Len(data) - max + 1, Len(data)),
          removed |-> << >>]
    ELSE [data |-> data, removed |-> << >>]

\* shrink(): walk the keys from the oldest, remove and dispose until size <= max.
\* max >= 0 here; with max < 0 the loop of the source never ends.
LRUshrink(data, max) ==
    IF Len(data) > max
    THEN [data    |-> SubSeq(data, Len(data) - max + 1, Len(data)),
          removed |-> [i \in 1..(Len(data) - max) |-> data[i].v]]
    ELSE [data |-> data, removed |-> << >>]

\* add(key, data): a null payload is ignored; an existing key is deleted and
\* set again (moved to the end, its old payload dropped without onRemove);
\* then shrink if over max.
LRUadd(data, max, key, v) ==
    IF v = NoObj
    THEN [data |-> data, removed |-> << >>]
    ELSE LRUshrink(Append(LRUdelete(data, key), [k |-> key, v |-> v]), max)

\* get(key): the payload or null; the Map is not touched.
LRUgetData(data, key) == data

\* remove(key)
LRUremove(data, key) ==
    IF LRUhas(data, key)
    THEN [data |-> LRUdelete(data, key), removed |-> <<data[LRUget(data, key)].v>>]
    ELSE [data |-> data, removed |-> << >>]

\* getAndRemove(key): no onRemove
LRUgetAndRemove(data, key) == [data |-> LRUdelete(data, key), removed |-> << >>]

\* reset()
LRUreset(data) == [data |-> << >>, removed |-> [i \in DOMAIN data |-> data[i].v]]

(***************************************************************************)
(* GridPlanner (src/unnamed/part_000:10-194).                              *)
(*                                                                         *)
(* Geodetic coordinates are integers in micro-degrees.  Mercator           *)
(* coordinates are held as the offset from MORIGIN in units of             *)
(* (world width) / 2^20, rounded down, x eastward and y southward, so that *)
(* Math.floor(offset / res) of the source is offset \div res here.  The    *)
(* two projections of @mapbox/sphericalmercator are tabulated at the grid  *)
(* points the planner evaluates them at, from the IEEE-754 values of the   *)
(* library's formulas.  NaN is a value of its own: every comparison with   *)
(* it is false and every arithmetic result on it is NaN, as in JavaScript. *)
(***************************************************************************)
TILESIZE == 256
FirstResE6 == 1406250

NaN == -(2^30)
MSCALE == 2^20
ORIGIN == <<-180000000, 90000000>>

JsLess(a, b) == a # NaN /\ b # NaN /\ a < b
JsLeq(a, b) == a # NaN /\ b # NaN /\ a <= b
JsMin(a, b) == IF a = NaN \/ b = NaN THEN NaN ELSE Min2(a, b)
JsMax(a, b) == IF a = NaN \/ b = NaN THEN NaN ELSE Max2(a, b)
JsFloorDiv(a, b) == IF a = NaN THEN NaN ELSE a \div b

\* get4326Res(z) * TILESIZE: the width of a geodetic tile, micro-degrees
tileRes4326(z) == (FirstResE6 * TILESIZE) \div (2^z)

\* get3857Res(z) * TILESIZE: the width of a mercator tile, mercator units
tileRes3857(z) == MSCALE \div (2^z)

tile4326BBOX(x, y, z) ==
    LET res == tileRes4326(z)
    IN  << ORIGIN[1] + x * res,
           (0 - ORIGIN[2]) + y * res,
           ORIGIN[1] + (x + 1) * res,
           (0 - ORIGIN[2]) + (y + 1) * res >>

\* merc.ll latitude of the pixel row k * 32 at zoom 0 (k in eighths of the world),
\* micro-degrees
mercLat8 ==
    << 89990753, 89979718, 89955515, 89902432, 89786007, 89530656, 88970618,
       87742509, 85051129, 79171335, 66513260, 40979898, 0, -40979898,
       -66513260, -79171335, -85051129, -87742509, -88970618, -89530656,
       -89786007, -89902432, -89955515, -89979718, -89990753 >>

mercLat(y, z) == mercLat8[(y * (8 \div (2^z))) + 9]

\* merc.bbox(x, y, z): [west, south, east, north] of a mercator tile, in degrees
mercBBOX(x, y, z) ==
    LET w == 360000000 \div (2^z)
    IN  << x * w - 180000000, mercLat(y + 1, z),
           (x + 1) * w - 180000000, mercLat(y, z) >>

\* merc.forward, y part, at latitude q * 45 degrees, q in -10..14
mercForwardY45 ==
    << 1048575, 671376, 524287, 377199, NaN, NaN, NaN, NaN,
       1048575, 671376, 524287, 377199, -1, NaN, NaN, NaN, NaN,
       671376, 524287, 377199, -1, NaN, NaN, NaN, NaN >>

\* merc.forward([lon, lat]): clamped to +-MAXEXTENT, which lies just outside
\* MORIGIN, so the west and north edges of the world sit at offset -1
mercForward(lon, lat) ==
    LET qx == lon \div 45000000
        qy == lat \div 45000000
    IN  << IF qx <= -4 THEN -1
           ELSE IF qx >= 4 THEN MSCALE - 1
           ELSE (qx + 4) * (MSCALE \div 8) - 1,
           mercForwardY45[qy + 11] >>

bboxToPoints(b) == << <<b[1], b[2]>>, <<b[1], b[4]>>, <<b[3], b[4]>>, <<b[3], b[2]>> >>

\* pointsToBBOX in mercator units: [west, north, east, south] offsets
pointsToBBOX(pts) ==
    << JsMin(JsMin(pts[1][1], pts[2][1]), JsMin(pts[3][1], pts[4][1])),
       JsMin(JsMin(pts[1][2], pts[2][2]), JsMin(pts[3][2], pts[4][2])),
       JsMax(JsMax(pts[1][1], pts[2][1]), JsMax(pts[3][1], pts[4][1])),
       JsMax(JsMax(pts[1][2], pts[2][2]), JsMax(pts[3][2], pts[4][2])) >>

NoPlan == [ok |-> FALSE, tiles |-> << >>]

\* the two nested loops of the planners: rows outside, columns inside
rangeTiles(mincol, maxcol, minrow, maxrow, shift, zoom) ==
    IF ~(JsLeq(minrow, maxrow) /\ JsLeq(mincol, maxcol))
    THEN << >>
    ELSE LET nc == maxcol - mincol + 1
             nr == maxrow - minrow + 1
         IN  [i \in 1..(nr * nc) |->
                 << mincol + ((i - 1) % nc) + shift,
                    minrow + ((i - 1) \div nc),
                    zoom >>]

\* lines 114-121: the index range [mincol, maxcol, minrow, maxrow] of the
\* box b on the geodetic grid of tile width res
index4326(b, res) ==
    << (b[1] - ORIGIN[1]) \div res, (b[3] - ORIGIN[1]) \div res,
       (ORIGIN[2] - b[4]) \div res, (ORIGIN[2] - b[2]) \div res >>

\* the index range of cal4326Tiles: [mincol, maxcol, minrow, maxrow]
range4326(x, y, z) == index4326(mercBBOX(x, y, z), tileRes4326(z))

cal4326Tiles(x, y, z, zoomOffset) ==
    LET r == range4326(x, y, z)
    IN  IF r[2] < r[1] \/ r[4] < r[3]
        THEN NoPlan
        ELSE [ok |-> TRUE,
              tiles |-> rangeTiles(r[1], r[2], r[3], r[4], -1, z + zoomOffset)]

range3857(x, y, z) ==
    LET res == tileRes3857(z)
        b   == tile4326BBOX(x, y, z)
        p   == bboxToPoints(b)
        m   == pointsToBBOX([i \in 1..4 |-> mercForward(p[i][1], p[i][2])])
    IN  << JsFloorDiv(m[1], res), JsFloorDiv(m[3], res),
           JsFloorDiv(m[2], res), JsFloorDiv(m[4], res) >>

cal3857Tiles(x, y, z, zoomOffset) ==
    LET r == range3857(x, y, z)
    IN  IF JsLess(r[2], r[1]) \/ JsLess(r[4], r[3])
        THEN NoPlan
        ELSE [ok |-> TRUE,
              tiles |-> rangeTiles(r[1], r[2], r[3], r[4], 0, z + zoomOffset)]

\* loadTiles: the plan of a request, undefined for any other projection
planCoverage(projection, x, y, z, zoomOffset) ==
    IF projection = "EPSG:4326" THEN cal4326Tiles(x, y, z, zoomOffset)
    ELSE IF projection = "EPSG:3857" THEN cal3857Tiles(x, y, z, zoomOffset)
    ELSE NoPlan

\* a tile the grid of its zoom does not hold
inGrid(x, y, z) == x >= 0 /\ y >= 0 /\ x < 2^z /\ y < 2^z

(***************************************************************************)
(* FetchCache (src/src/tileget.ts:13-164).                                 *)
(*                                                                         *)
(* A call is keyed by <<request, index>>: request 0 is a direct caller.    *)
(* Its AbortController carries the same key.  A payload object is          *)
(* <<request, index, 0>> when it was decoded from the network response of  *)
(* that call and <<request, index, 1>> when createImageBitmap made it as   *)
(* the duplicate that call resolves with.                                  *)
(*                                                                         *)
(*   st     where the promise chain of the call stands:                    *)
(*          "fetch" awaiting the response, "body" awaiting blob() (or      *)
(*          arrayBuffer()), "decode" awaiting createImageBitmap(blob),     *)
(*          "end" nothing left to run.  An abort rejects fetch() and the   *)
(*          body read; createImageBitmap does not listen to the signal.    *)
(*   timer  the setTimeout of the call: "none", "armed", and once it has   *)
(*          run "fired" (the call was pending and not aborted) or "late"   *)
(*   outer  the promise fetchTile returned: pending, resolved, rejected    *)
(*                                                                         *)
(* copyImageBitMap resolves one reaction after it is called; nothing any   *)
(* other handler does can change that reaction, so it is part of the       *)
(* handler that calls it.  A call of a request whose chain has ended and   *)
(* whose promise the request has consumed is garbage: its record keeps     *)
(* what it was (kind, url, task), whether it went to the network and how   *)
(* it settled.                                                             *)
(***************************************************************************)
EmptyFn == [x \in {} |-> TRUE]

Put(f, k, v) == [x \in (DOMAIN f) \cup {k} |-> IF x = k THEN v ELSE f[x]]

Drop(f, k) == [x \in (DOMAIN f) \ {k} |-> f[x]]

NetObj(id) == <<id[1], id[2], 0>>
DupObj(id) == <<id[1], id[2], 1>>

NoFetch ==
    [kind |-> "image", url |-> <<0, 0, 0>>, task |-> NoTask, st |-> "end",
     outer |-> "pending", err |-> "none", abort |-> "none", net |-> FALSE,
     src |-> NoObj, obj |-> NoObj, nocache |-> FALSE, timer |-> "none"]

\* cacheFetch(taskId, control)
cacheFetch(cc, taskId, control) ==
    Put(cc, taskId, Append(IF taskId \in DOMAIN cc THEN cc[taskId] ELSE << >>, control))

\* cancelList, were cancelFetch to walk every group of the table
cancelListAll(cc, taskId) == UNION {Range(cc[t]) : t \in DOMAIN cc}

\* the controllers cancelFetch(taskId) aborts
cancelList(cc, taskId) == IF taskId \in DOMAIN cc THEN Range(cc[taskId]) ELSE {}

\* delete CONTROLCACHE[taskId]
cancelDelete(cc, taskId) == Drop(cc, taskId)

\* controlList.splice(controlList.indexOf(control), 1)
spliceControl(list, control) ==
    IF \E i \in DOMAIN list : list[i] = control
    THEN LET i == CHOOSE j \in DOMAIN list :
                      list[j] = control /\ \A k \in 1..(j - 1) : list[k] # control
         IN  SubSeq(list, 1, i - 1) \o SubSeq(list, i + 1, Len(list))
    ELSE list

\* finishFetch, were it to delete every group that holds the controller
finishFetchGroup(cc, control) ==
    [t \in {u \in DOMAIN cc : control \notin Range(cc[u])} |-> cc[t]]

\* finishFetch(control): splice the controller out of every group, delete the
\* groups left empty
finishFetch(cc, control) ==
    LET spliced == [t \in DOMAIN cc |-> spliceControl(cc[t], control)]
    IN  [t \in {u \in DOMAIN cc : Len(spliced[u]) > 0} |-> spliced[t]]

\* control.abort(reason): the first reason stays
abortControl(f, reason) == IF f.abort = "none" THEN [f EXCEPT !.abort = reason] ELSE f

\* resolve / reject of a promise: only the first call settles it
settle(f, how, err, obj) ==
    IF f.outer = "pending"
    THEN [f EXCEPT !.outer = how, !.err = err, !.obj = obj]
    ELSE f

cacheOf(kind) == IF kind = "image" THEN tileImageCache ELSE tileBufferCache

\* the promise executor, were the cache looked up before the task id is tested
fetchCallCacheFirst(kind, id, url, o) ==
    LET base == [NoFetch EXCEPT !.kind = kind, !.url = url, !.task = o.taskId, !.nocache = o.disableCache]
        cache == cacheOf(kind)
    IN  IF LRUhas(cache, url)
        THEN LET hit == cache[LRUget(cache, url)].v
             IN  IF kind = "image"
                 THEN [base EXCEPT !.outer = "resolved", !.src = hit, !.obj = DupObj(id)]
                 ELSE [base EXCEPT !.outer = "resolved", !.src = hit, !.obj = hit]
        ELSE IF o.taskId = NoTask
        THEN [base EXCEPT !.outer = "rejected", !.err = "Inner"]
        ELSE [base EXCEPT !.st = "fetch", !.net = TRUE, !.timer = IF o.timeout > 0 THEN "armed" ELSE "none"]

\* fetchTile / fetchTileBuffer, the promise executor: lines 62-97, 118-145.
\* o = [taskId, timeout, disableCache]
fetchCall(kind, id, url, o) ==
    LET base == [NoFetch EXCEPT !.kind = kind, !.url = url, !.task = o.taskId,
                                !.nocache = o.disableCache]
        cache == cacheOf(kind)
    IN  IF o.taskId = NoTask
        THEN [base EXCEPT !.outer = "rejected", !.err = "Inner"]
        ELSE IF LRUhas(cache, url)
        THEN LET hit == cache[LRUget(cache, url)].v
             IN  IF kind = "image"
                 THEN [base EXCEPT !.outer = "resolved", !.src = hit, !.obj = DupObj(id)]
                 ELSE [base EXCEPT !.outer = "resolved", !.src = hit, !.obj = hit]
        ELSE [base EXCEPT !.st = "fetch", !.net = TRUE,
                          !.timer = IF o.timeout > 0 THEN "armed" ELSE "none"]

\* the group table after the call: a miss registers its controller
fetchCallControl(cc, id, f) == IF f.net THEN cacheFetch(cc, f.task, id) ELSE cc

\* the record left of a call nothing refers to any more
garbage(f) ==
    [NoFetch EXCEPT !.kind = f.kind, !.url = f.url, !.task = f.task,
                    !.net = f.net, !.outer = f.outer]

collect(fs, rq) ==
    [id \in DOMAIN fs |->
        IF id[1] # 0 /\ rq[id[1]].loadCount >= id[2] /\ fs[id].st = "end"
        THEN garbage(fs[id])
        ELSE fs[id]]

(* -------- the reactions of one call ----------------------------------- *)

\* fetch(...).then(res => ...), lines 98-102: a response that is not ok rejects
\* the call and the chain goes on to read the body
FetchResponse(id, ok) ==
    /\ id \in DOMAIN fetches
    /\ fetches[id].st = "fetch"
    /\ fetches[id].abort = "none"
    /\ fetches' = [fetches EXCEPT ![id] =
                      [(IF ok THEN @ ELSE settle(@, "rejected", "Network", NoObj))
                          EXCEPT !.st = "body"]]
    /\ UNCHANGED <<reqs, CONTROLCACHE, tileImageCache, tileBufferCache, closed,
                   dirty, lru, calc>>

\* .catch(error => ...), lines 109-112
catchFetch(id, err) ==
    /\ fetches' = collect([fetches EXCEPT ![id] =
                               [settle(@, "rejected", err, NoObj) EXCEPT !.st = "end"]],
                          reqs)
    /\ CONTROLCACHE' = finishFetch(CONTROLCACHE, id)
    /\ UNCHANGED <<reqs, tileImageCache, tileBufferCache, closed, dirty, lru, calc>>

\* the transport fails: fetch rejects
FetchNetworkError(id) ==
    /\ id \in DOMAIN fetches
    /\ fetches[id].st = "fetch"
    /\ fetches[id].abort = "none"
    /\ catchFetch(id, "Network")

\* the signal was aborted while fetch or the body read was pending
FetchAborted(id) ==
    /\ id \in DOMAIN fetches
    /\ fetches[id].st \in {"fetch", "body"}
    /\ fetches[id].abort # "none"
    /\ catchFetch(id, IF fetches[id].abort = "timeout" THEN "Timeout" ELSE "Cancel")

\* .then(blob => createImageBitmap(blob)), line 103: the body has been read
FetchBlob(id) ==
    /\ id \in DOMAIN fetches
    /\ fetches[id].st = "body"
    /\ fetches[id].kind = "image"
    /\ fetches[id].abort = "none"
    /\ fetches' = [fetches EXCEPT ![id].st = "decode"]
    /\ UNCHANGED <<reqs, CONTROLCACHE, tileImageCache, tileBufferCache, closed,
                   dirty, lru, calc>>

\* the payload is no image: createImageBitmap rejects
FetchDecodeError(id) ==
    /\ id \in DOMAIN fetches
    /\ fetches[id].st = "decode"
    /\ catchFetch(id, "Decode")

\* setTimeout(() => control.abort(FetchTimeoutError), timeout), lines 90-94: the
\* timer is never cleared, it runs whatever has become of the call
FetchTimeout(id) ==
    /\ id \in DOMAIN fetches
    /\ fetches[id].timer = "armed"
    /\ LET f == fetches[id]
       IN  fetches' = [fetches EXCEPT ![id] =
                          [abortControl(f, "timeout") EXCEPT
                              !.timer = IF f.outer = "pending" /\ f.abort = "none"
                                        THEN "fired" ELSE "late"]]
    /\ UNCHANGED <<reqs, CONTROLCACHE, tileImageCache, tileBufferCache, closed,
                   dirty, lru, calc>>

\* storeTile, were disableCache not looked at
storeTileAlways(cache, f, id) == LRUadd(cache, CacheMax, f.url, NetObj(id))

\* what the then-handler stores: lines 104-106, 152-154
storeTile(cache, f, id) ==
    IF f.nocache
    THEN [data |-> cache, removed |-> << >>]
    ELSE LRUadd(cache, CacheMax, f.url, NetObj(id))

\* what the then-handler resolves with: copyImageBitMap a duplicate made by
\* createImageBitmap, copyBuffer the buffer it was given
returnTile(f, id) ==
    [settle([f EXCEPT !.src = NetObj(id)], "resolved", "none",
            IF f.kind = "image" THEN DupObj(id) ELSE NetObj(id))
        EXCEPT !.st = "end"]

\* .then(image => ...), lines 103-108, 151-156
FetchBody(id) ==
    /\ id \in DOMAIN fetches
    /\ \/ fetches[id].kind = "image" /\ fetches[id].st = "decode"
       \/ fetches[id].kind = "buffer" /\ fetches[id].st = "body"
                                      /\ fetches[id].abort = "none"
    /\ LET f == fetches[id]
           stored == storeTile(cacheOf(f.kind), f, id)
       IN  /\ IF f.kind = "image"
              THEN /\ tileImageCache' = stored.data
                   /\ closed' = closed \cup Range(stored.removed)
                   /\ UNCHANGED tileBufferCache
              ELSE /\ tileBufferCache' = stored.data
                   /\ UNCHANGED <<tileImageCache, closed>>
           /\ CONTROLCACHE' = finishFetch(CONTROLCACHE, id)
           /\ fetches' = collect([fetches EXCEPT ![id] = returnTile(f, id)], reqs)
    /\ UNCHANGED <<reqs, dirty, lru, calc>>

\* cancelFetch(taskId), lines 30-38
cancelFetch(taskId) ==
    /\ fetches' = [id \in DOMAIN fetches |->
                      IF id \in cancelList(CONTROLCACHE, taskId)
                      THEN abortControl(fetches[id], "cancel")
                      ELSE fetches[id]]
    /\ CONTROLCACHE' = cancelDelete(CONTROLCACHE, taskId)
    /\ UNCHANGED <<reqs, tileImageCache, tileBufferCache, closed, dirty, lru, calc>>

(***************************************************************************)
(* getTileWithMaxZoom (src/src/tileget.ts:194-280), the part that picks    *)
(* the tile to fetch.                                                      *)
(***************************************************************************)
\* parentTile, were px, py halved once whatever the zoom difference
parentTileOnce(px, py, zoom, maxAvailableZoom) ==
    IF zoom > maxAvailableZoom
    THEN <<px \div 2, py \div 2, maxAvailableZoom>>
    ELSE <<px, py, zoom>>

RECURSIVE parentTile(_, _, _, _)
\* lines 209-216: halve px, py while zoom > maxAvailableZoom
parentTile(px, py, zoom, maxAvailableZoom) ==
    IF zoom > maxAvailableZoom
    THEN parentTile(px \div 2, py \div 2, zoom - 1, maxAvailableZoom)
    ELSE <<px, py, zoom>>

\* maxZoomTile, were the tile zoom left at the zoom the loop stops at one early
maxZoomTileEarly(x, y, z, maxAvailableZoom) ==
    IF z - maxAvailableZoom > 1
    THEN parentTile(x, y, z, maxAvailableZoom + 1)
    ELSE <<x, y, z>>

\* lines 206-240: tileX, tileY, tileZ
maxZoomTile(x, y, z, maxAvailableZoom) ==
    IF z - maxAvailableZoom > 0
    THEN LET p == parentTile(x, y, z, maxAvailableZoom)
         IN  <<p[1], p[2], maxAvailableZoom>>
    ELSE <<x, y, z>>

\* lines 217-235: the window of the ancestor raster, dxScale = dxn / dw,
\* dyScale = dyn / dh, wScale = 1 / dw, hScale = 1 / dh; none without overzoom
NoWindow == [dxn |-> 0, dyn |-> 0, dw |-> 0, dh |-> 0]

maxZoomWindow(x, y, z, maxAvailableZoom) ==
    IF z - maxAvailableZoom > 0
    THEN LET p      == parentTile(x, y, z, maxAvailableZoom)
             scale  == 2^(z - maxAvailableZoom)
             startX == IF p[1] * scale > x THEN p[1] * scale - 1 ELSE p[1] * scale
             endX   == IF p[1] * scale > x THEN p[1] * scale + scale - 1
                                           ELSE p[1] * scale + scale
             startY == IF p[2] * scale > y THEN p[2] * scale - 1 ELSE p[2] * scale
             endY   == IF p[2] * scale > y THEN p[2] * scale + scale - 1
                                           ELSE p[2] * scale + scale
         IN  [dxn |-> x - startX, dyn |-> y - startY,
              dw |-> endX - startX, dh |-> endY - startY]
    ELSE NoWindow

\* getTileUrl: the url of a tile of one template is named by the tile
getTileUrl(tile) == tile

(***************************************************************************)
(* Orchestrator: tileTransform (src/unnamed/part_000:460-521).             *)
(*                                                                         *)
(*   pc   "idle" not called yet, "fetch" awaiting the getTileWithMaxZoom   *)
(*        promise of tile loadCount + 1, "output" awaiting                 *)
(*        createImageTypeResult, "resolved", "rejected"                    *)
(*   gt   the getTileWithMaxZoom call awaited: "fetch" it called           *)
(*        fetchTile, "invalid" it rejected at validateSubdomains           *)
(*   out  what returnImage was handed: "tile" or "blank"                   *)
(*   images  tile.tileImage of the tiles loaded so far, "image" or         *)
(*        "blank"; the tiles are garbage once the request has settled      *)
(***************************************************************************)
ReqIds == 1..MaxReq

BaseOptions ==
    [projection |-> "EPSG:4326", x |-> 0, y |-> 0, z |-> 0, zoomOffset |-> 0,
     maxAvailableZoom |-> 18, subdomains |-> TRUE, timeout |-> 0,
     disableCache |-> FALSE]

\* the options concurrent requests are made with: the mercator tile 0/0/0 from
\* a geodetic source, and a projection tileTransform has no planner for
Options == { BaseOptions, [BaseOptions EXCEPT !.projection = "EPSG:900913"] }

\* the options a single request is made with: every tile of the zooms
\* 0..OneZoom and the ring of tiles around their grids, in both directions,
\* as far as the plan has at most MaxTiles tiles; subdomains says whether
\* validateSubdomains accepts the url template with the subdomains given
PlanOptions ==
    { o \in { [BaseOptions EXCEPT !.projection = p, !.x = x, !.y = y, !.z = z,
                                   !.subdomains = s] :
                 p \in {"EPSG:4326", "EPSG:3857", "EPSG:900913"},
                 x \in -1..(2^OneZoom), y \in -1..(2^OneZoom), z \in 0..OneZoom,
                 s \in BOOLEAN } :
        /\ o.x <= 2^(o.z)
        /\ o.y <= 2^(o.z)
        /\ Len(planCoverage(o.projection, o.x, o.y, o.z, o.zoomOffset).tiles) <= MaxTiles }

IdleReq ==
    [pc |-> "idle", o |-> BaseOptions, task |-> NoTask,
     ok |-> FALSE, tiles |-> << >>, loadCount |-> 0, images |-> << >>,
     gt |-> "none", out |-> "none", err |-> "none"]

\* noCoverage, were line 481 to test only tiles.length === 0
noCoverageEmptyOnly(p) == p.ok /\ Len(p.tiles) = 0

\* line 481: no plan, or a plan without tiles
noCoverage(p) == ~p.ok \/ Len(p.tiles) = 0

(***************************************************************************)
(* transformTiles (part_000 266-279): the size of the raster of the second  *)
(* pass.  A number is [k, v]: k "num" with the integer v, or "NaN",         *)
(* "Infinity", "-Infinity".                                                 *)
(***************************************************************************)
Num(n) == [k |-> "num", v |-> n]
jsNaN == [k |-> "NaN", v |-> 0]
jsInfinity == [k |-> "Infinity", v |-> 0]
jsNegInfinity == [k |-> "-Infinity", v |-> 0]

\* isNaN(a)
isNaN(a) == a.k = "NaN"

\* Math.abs(a) === Infinity
absIsInfinity(a) == a.k \in {"Infinity", "-Infinity"}

\* -a
jsNeg(a) ==
    CASE a.k = "num" -> Num(0 - a.v)
      [] a.k = "Infinity" -> jsNegInfinity
      [] a.k = "-Infinity" -> jsInfinity
      [] OTHER -> jsNaN

\* a - b
jsSub(a, b) ==
    IF isNaN(a) \/ isNaN(b) THEN jsNaN
    ELSE IF a.k = "num" /\ b.k = "num" THEN Num(a.v - b.v)
    ELSE IF a.k = "num" THEN jsNeg(b)
    ELSE IF b.k = "num" THEN a
    ELSE IF a.k = b.k THEN jsNaN
    ELSE a

\* Math.round(n / m) of integers n and m > 0: halves go up
roundQuotient(n, m) == (2 * n + m) \div (2 * m)

\* Math.round(d / (e / TILESIZE)), lines 268 and 271-273
rasterSize(d, e) ==
    IF isNaN(d) \/ isNaN(e) THEN jsNaN
    ELSE IF absIsInfinity(e)
         THEN IF absIsInfinity(d) THEN jsNaN ELSE Num(0)
    ELSE IF e.v = 0
         THEN IF absIsInfinity(d) THEN d
              ELSE IF d.v = 0 THEN jsNaN
              ELSE IF d.v > 0 THEN jsInfinity ELSE jsNegInfinity
    ELSE IF absIsInfinity(d)
         THEN IF e.v > 0 THEN d ELSE jsNeg(d)
    ELSE IF e.v > 0
         THEN Num(roundQuotient(d.v * TILESIZE, e.v))
         ELSE Num(roundQuotient((0 - d.v) * TILESIZE, 0 - e.v))

\* Math.min(width, height) === 0
minIsZero(width, height) ==
    /\ ~isNaN(width) /\ ~isNaN(height)
    /\ width.k # "-Infinity" /\ height.k # "-Infinity"
    /\ \/ width.k = "num" /\ width.v = 0 /\ (height.k = "Infinity" \/ height.v >= 0)
       \/ height.k = "num" /\ height.v = 0 /\ (width.k = "Infinity" \/ width.v >= 0)

\* the guard of line 274 without its test of Math.min(width, height) === 0
sizeDegenerateNoZero(width, height) ==
    \/ isNaN(width) \/ isNaN(height)
    \/ absIsInfinity(width) \/ absIsInfinity(height)

\* the guard of line 274
sizeDegenerate(width, height) ==
    \/ isNaN(width) \/ isNaN(height)
    \/ minIsZero(width, height)
    \/ absIsInfinity(width) \/ absIsInfinity(height)

\* lines 267-273: width and height from bbox, the box of the pixels, and mbbox,
\* the box of the tile; a box is <<minx, miny, maxx, maxy>>
transformSize(bbox, mbbox) ==
    [width  |-> rasterSize(jsSub(bbox[3], bbox[1]), jsSub(mbbox[3], mbbox[1])),
     height |-> rasterSize(jsSub(bbox[4], bbox[2]), jsSub(mbbox[4], mbbox[2]))]

\* transformTiles, lines 266-323: undefined when the guard of line 274 holds,
\* a raster otherwise
transformTiles(bbox, mbbox) ==
    LET size == transformSize(bbox, mbbox)
    IN  IF sizeDegenerate(size.width, size.height) THEN "undefined" ELSE "tile"

\* image1 || getBlankTile(), lines 493 and 497
orBlankTile(image1) == IF image1 = "undefined" THEN "blank" ELSE image1

\* returnImage(opImage), lines 463-469: hand the raster to createImageTypeResult
returnImage(r, q, image) ==
    /\ reqs' = [reqs EXCEPT ![r] = [q EXCEPT !.pc = "output", !.out = image, !.gt = "none"]]
    /\ fetches' = collect(fetches, [reqs EXCEPT ![r] = q])
    /\ UNCHANGED CONTROLCACHE

\* the fetchTile options getTileWithMaxZoom passes on
fetchOptions(q) ==
    [taskId |-> q.task, timeout |-> q.o.timeout, disableCache |-> q.o.disableCache]

\* loadTile, were it to composite without looking at loadCount
loadTileEarly(r, q) ==
    \E image1 \in {"undefined", "tile"} : returnImage(r, q, orBlankTile(image1))

\* loadTile(), lines 486-515, with the request record q as the handler left it
loadTile(r, q) ==
    IF q.loadCount >= Len(q.tiles)
    THEN \* layoutTiles, tilesImageData, transformTiles: undefined when degenerate
         \E image1 \in {"undefined", "tile"} :
             returnImage(r, q, orBlankTile(image1))
    ELSE LET tile == q.tiles[q.loadCount + 1]
             id   == <<r, q.loadCount + 1>>
         IN  IF ~q.o.subdomains
             THEN /\ reqs' = [reqs EXCEPT ![r] = [q EXCEPT !.pc = "fetch", !.gt = "invalid"]]
                  /\ fetches' = collect(fetches, [reqs EXCEPT ![r] = q])
                  /\ UNCHANGED CONTROLCACHE
             ELSE LET t == maxZoomTile(tile[1], tile[2], tile[3], q.o.maxAvailableZoom)
                      f == fetchCall("image", id, getTileUrl(t), fetchOptions(q))
                  IN  /\ reqs' = [reqs EXCEPT ![r] = [q EXCEPT !.pc = "fetch", !.gt = "fetch"]]
                      /\ fetches' = collect(Put(fetches, id, f), [reqs EXCEPT ![r] = q])
                      /\ CONTROLCACHE' = fetchCallControl(CONTROLCACHE, id, f)

\* tileTransform(options): loadTiles(), lines 471-518
tileTransform(r, o, task) ==
    /\ reqs[r].pc = "idle"
    /\ LET p == planCoverage(o.projection, o.x, o.y, o.z, o.zoomOffset)
           q == [reqs[r] EXCEPT !.o = o, !.task = task, !.ok = p.ok, !.tiles = p.tiles]
       IN  IF noCoverage(p)
           THEN returnImage(r, q, "blank")
           ELSE loadTile(r, q)
    /\ UNCHANGED <<tileImageCache, tileBufferCache, closed, dirty, lru, calc>>

\* tileSettled, were loadTile to go on without awaiting the promise
tileSettledEager(r) == reqs[r].gt \in {"invalid", "fetch"}

\* the getTileWithMaxZoom promise of the awaited tile has settled
tileSettled(r) ==
    \/ reqs[r].gt = "invalid"
    \/ /\ reqs[r].gt = "fetch"
       /\ fetches[<<r, reqs[r].loadCount + 1>>].outer # "pending"

tileResolved(r) ==
    /\ reqs[r].gt = "fetch"
    /\ fetches[<<r, reqs[r].loadCount + 1>>].outer = "resolved"

\* TileSettled, were the catch handler to reject the request with the tile's error
TileSettledStrict(r) ==
    /\ reqs[r].pc = "fetch"
    /\ tileSettled(r)
    /\ IF tileResolved(r)
       THEN loadTile(r, [reqs[r] EXCEPT !.images = Append(@, "image"),
                                        !.loadCount = @ + 1])
       ELSE /\ reqs' = [reqs EXCEPT ![r] = [@ EXCEPT !.pc = "rejected", !.err = "Tile",
                                                     !.gt = "none"]]
            /\ UNCHANGED <<fetches, CONTROLCACHE>>
    /\ UNCHANGED <<tileImageCache, tileBufferCache, closed, dirty, lru, calc>>

\* TileSettled, were there no catch handler
TileSettledThenOnly(r) ==
    /\ reqs[r].pc = "fetch"
    /\ tileResolved(r)
    /\ loadTile(r, [reqs[r] EXCEPT !.images = Append(@, "image"),
                                   !.loadCount = @ + 1])
    /\ UNCHANGED <<tileImageCache, tileBufferCache, closed, dirty, lru, calc>>

\* .then(image => ...) and .catch(error => ...), lines 502-513
TileSettled(r) ==
    /\ reqs[r].pc = "fetch"
    /\ tileSettled(r)
    /\ loadTile(r, [reqs[r] EXCEPT
                       !.images = Append(@, IF tileResolved(r) THEN "image" ELSE "blank"),
                       !.loadCount = @ + 1])
    /\ UNCHANGED <<tileImageCache, tileBufferCache, closed, dirty, lru, calc>>

\* createImageTypeResult(...).then(resolve).catch(reject), lines 464-468
OutputDone(r, encoded) ==
    /\ reqs[r].pc = "output"
    /\ reqs' = [reqs EXCEPT ![r] =
                   IF encoded THEN [@ EXCEPT !.pc = "resolved", !.images = << >>]
                   ELSE [@ EXCEPT !.pc = "rejected", !.err = "Encode", !.images = << >>]]
    /\ UNCHANGED <<fetches, CONTROLCACHE, tileImageCache, tileBufferCache, closed,
                   dirty, lru, calc>>

(***************************************************************************)
(* Spec: concurrent tileTransform requests over the shared caches and the  *)
(* shared group table, with cancelFetch called at any time.                *)
(***************************************************************************)
Init ==
    /\ reqs = [r \in ReqIds |-> IdleReq]
    /\ fetches = EmptyFn
    /\ CONTROLCACHE = EmptyFn
    /\ tileImageCache = << >>
    /\ tileBufferCache = << >>
    /\ closed = {}
    /\ dirty = {}
    /\ lru = 0
    /\ calc = 0

Next ==
    \/ \E r \in ReqIds, o \in Options, t \in TaskIds :
          (r = 1 => t = "T") /\ tileTransform(r, o, t)
    \/ \E r \in ReqIds : TileSettled(r)
    \/ \E r \in ReqIds, encoded \in BOOLEAN : OutputDone(r, encoded)
    \/ \E t \in TaskIds : cancelFetch(t)
    \/ \E id \in DOMAIN fetches, ok \in BOOLEAN : FetchResponse(id, ok)
    \/ \E id \in DOMAIN fetches : FetchNetworkError(id)
    \/ \E id \in DOMAIN fetches : FetchAborted(id)
    \/ \E id \in DOMAIN fetches : FetchBlob(id)
    \/ \E id \in DOMAIN fetches : FetchDecodeError(id)
    \/ \E id \in DOMAIN fetches : FetchBody(id)

Spec == Init /\ [][Next]_vars

(***************************************************************************)
(* SpecOne: one tileTransform request, for every tile of PlanOptions.      *)
(***************************************************************************)
NextOne ==
    \/ \E o \in PlanOptions, t \in TaskIds : tileTransform(1, o, t)
    \/ TileSettled(1)
    \/ \E encoded \in BOOLEAN : OutputDone(1, encoded)
    \/ \E t \in TaskIds : cancelFetch(t)
    \/ \E id \in DOMAIN fetches, ok \in BOOLEAN : FetchResponse(id, ok)
    \/ \E id \in DOMAIN fetches : FetchNetworkError(id)
    \/ \E id \in DOMAIN fetches : FetchAborted(id)
    \/ \E id \in DOMAIN fetches : FetchBlob(id)
    \/ \E id \in DOMAIN fetches : FetchDecodeError(id)
    \/ \E id \in DOMAIN fetches : FetchBody(id)

SpecOne == Init /\ [][NextOne]_vars

\* a reaction of the chain of some call
FetchProgress ==
    \E id \in DOMAIN fetches :
        \/ \E ok \in BOOLEAN : FetchResponse(id, ok)
        \/ FetchNetworkError(id)
        \/ FetchAborted(id)
        \/ FetchBlob(id)
        \/ FetchDecodeError(id)
        \/ FetchBody(id)

\* SpecOne where every fetch settles (the network answers or fails, the body
\* is read, the image is decoded or not), a settled promise runs its
\* reaction, and createImageTypeResult settles
SpecOneLive ==
    /\ SpecOne
    /\ WF_vars(FetchProgress)
    /\ WF_vars(TileSettled(1))
    /\ WF_vars(\E encoded \in BOOLEAN : OutputDone(1, encoded))

(***************************************************************************)
(* SpecLRU: one LRUCache instance, its methods called in any order.        *)
(*                                                                         *)
(*   data, max  the fields of the instance                                 *)
(*   n          the calls made so far                                      *)
(*   op, key, v the last call: method, key argument, payload argument      *)
(*   got        what the last call returned, where it returns a payload    *)
(*   removed    the payloads the last call handed to onRemove, in order    *)
(*   uses       the keys held, from the least to the most recently used:   *)
(*              a key is used when it is added and when get finds it.      *)
(*              The instance keeps no such order; it is kept here beside   *)
(*              the instance, to compare what is evicted with it.          *)
(***************************************************************************)
LruKeys == {"a", "b", "c"}

touch(uses, key) == Append(SelectSeq(uses, LAMBDA k : k # key), key)

held(uses, data) == SelectSeq(uses, LAMBDA k : LRUhas(data, k))

payloadOf(data, key) == IF LRUhas(data, key) THEN data[LRUget(data, key)].v ELSE NoObj

NewLRU ==
    [data |-> << >>, max |-> CacheMax, n |-> 0, op |-> "new", key |-> "",
     v |-> NoObj, got |-> NoObj, removed |-> << >>, uses |-> << >>]

\* the record after a call that left data and removed
lruAfter(op, key, v, got, res, uses) ==
    [lru EXCEPT !.data = res.data, !.n = @ + 1, !.op = op, !.key = key, !.v = v,
                !.got = got, !.removed = res.removed, !.uses = held(uses, res.data)]

LruStep(next) ==
    /\ lru.n < MaxLruOps
    /\ lru' = next
    /\ UNCHANGED <<reqs, fetches, CONTROLCACHE, tileImageCache, tileBufferCache,
                   closed, dirty, calc>>

\* add(key, data): the payload of call n is the object <<0, n, 0>>, or null
LruAdd(key, null) ==
    LET v == IF null THEN NoObj ELSE <<0, lru.n + 1, 0>>
    IN  LruStep(lruAfter("add", key, v, NoObj, LRUadd(lru.data, lru.max, key, v),
                         IF null THEN lru.uses ELSE touch(lru.uses, key)))

\* get(key)
LruGet(key) ==
    LruStep(lruAfter("get", key, NoObj, payloadOf(lru.data, key),
                     [data |-> LRUgetData(lru.data, key), removed |-> << >>],
                     IF LRUhas(lru.data, key) THEN touch(lru.uses, key) ELSE lru.uses))

\* remove(key)
LruRemove(key) ==
    LruStep(lruAfter("remove", key, NoObj, NoObj, LRUremove(lru.data, key), lru.uses))

\* getAndRemove(key)
LruGetAndRemove(key) ==
    LruStep(lruAfter("getAndRemove", key, NoObj, payloadOf(lru.data, key),
                     LRUgetAndRemove(lru.data, key), lru.uses))

\* reset()
LruReset ==
    LruStep(lruAfter("reset", "", NoObj, NoObj, LRUreset(lru.data), lru.uses))

\* setMaxSize(max), max in 1..CacheMax
LruSetMaxSize(max) ==
    LruStep([lruAfter("setMaxSize", "", NoObj, NoObj, LRUshrink(lru.data, max), lru.uses)
                EXCEPT !.max = max])

InitLRU ==
    /\ reqs = [r \in ReqIds |-> IdleReq]
    /\ fetches = EmptyFn
    /\ CONTROLCACHE = EmptyFn
    /\ tileImageCache = << >>
    /\ tileBufferCache = << >>
    /\ closed = {}
    /\ dirty = {}
    /\ lru = NewLRU
    /\ calc = 0

NextLRU ==
    \/ \E key \in LruKeys, null \in BOOLEAN : LruAdd(key, null)
    \/ \E key \in LruKeys : LruGet(key)
    \/ \E key \in LruKeys : LruRemove(key)
    \/ \E key \in LruKeys : LruGetAndRemove(key)
    \/ LruReset
    \/ \E max \in 1..CacheMax : LruSetMaxSize(max)

SpecLRU == InitLRU /\ [][NextLRU]_vars

(***************************************************************************)
(* SpecFetch: fetchTile and fetchTileBuffer called directly, up to         *)
(* MaxCalls times, by a caller that may write to (or close) what a call    *)
(* resolved with.                                                          *)
(***************************************************************************)
Urls == {<<0, 0, 0>>, <<1, 0, 0>>}

DirectOptions ==
    [taskId : TaskIds \cup {NoTask}, timeout : {0, 1}, disableCache : BOOLEAN]

directCalls == {id \in DOMAIN fetches : id[1] = 0}

fetchDirect(kind, url, o) ==
    LET id == <<0, Cardinality(directCalls) + 1>>
        f  == fetchCall(kind, id, url, o)
    IN  /\ Cardinality(directCalls) < MaxCalls
        /\ fetches' = Put(fetches, id, f)
        /\ CONTROLCACHE' = fetchCallControl(CONTROLCACHE, id, f)
        /\ UNCHANGED <<reqs, tileImageCache, tileBufferCache, closed, dirty, lru, calc>>

\* fetchTile(url, options), tileget.ts:60
fetchTile(url, o) == fetchDirect("image", url, o)

\* fetchTileBuffer(url, options), tileget.ts:117
fetchTileBuffer(url, o) == fetchDirect("buffer", url, o)

\* the caller writes into the ArrayBuffer, or closes the ImageBitmap, it was given
callerWrites(id) ==
    /\ id \in directCalls
    /\ fetches[id].outer = "resolved"
    /\ fetches[id].obj \notin dirty
    /\ dirty' = dirty \cup {fetches[id].obj}
    /\ UNCHANGED <<reqs, fetches, CONTROLCACHE, tileImageCache, tileBufferCache,
                   closed, lru, calc>>

NextFetch ==
    \/ \E url \in Urls, o \in DirectOptions : fetchTile(url, o)
    \/ \E url \in Urls, o \in DirectOptions : fetchTileBuffer(url, o)
    \/ \E id \in DOMAIN fetches : callerWrites(id)
    \/ \E id \in DOMAIN fetches : FetchTimeout(id)
    \/ \E t \in TaskIds : cancelFetch(t)
    \/ \E id \in DOMAIN fetches, ok \in BOOLEAN : FetchResponse(id, ok)
    \/ \E id \in DOMAIN fetches : FetchNetworkError(id)
    \/ \E id \in DOMAIN fetches : FetchAborted(id)
    \/ \E id \in DOMAIN fetches : FetchBlob(id)
    \/ \E id \in DOMAIN fetches : FetchDecodeError(id)
    \/ \E id \in DOMAIN fetches : FetchBody(id)

SpecFetch == Init /\ [][NextFetch]_vars

(***************************************************************************)
(* SpecLayout: one layout_Tiles request (src/src/tileget.ts:281-315).  The  *)
(* request record has pc "all" while it awaits Promise.all of its          *)
(* fetchTile calls, which are all made at once, call i under <<r, i>>.     *)
(***************************************************************************)
LayoutTiles == UNION { [1..n -> Urls] : n \in 1..MaxLayout }

LayoutOptions ==
    { [BaseOptions EXCEPT !.subdomains = s] : s \in BOOLEAN }

\* urls.map(url => fetchTile(url, headers, options)), lines 293-295, from call
\* i on: the records of the calls and the group table after them
RECURSIVE layoutFetches(_, _, _, _, _, _)
layoutFetches(fs, cc, r, tiles, o, i) ==
    IF i > Len(tiles) THEN [fetches |-> fs, control |-> cc]
    ELSE LET id == <<r, i>>
             f  == fetchCall("image", id, getTileUrl(tiles[i]), o)
         IN  layoutFetches(Put(fs, id, f), fetchCallControl(cc, id, f),
                           r, tiles, o, i + 1)

\* layout_Tiles(options), lines 281-298
layout_Tiles(r, tiles, o, task) ==
    /\ reqs[r].pc = "idle"
    /\ LET q == [reqs[r] EXCEPT !.o = o, !.task = task, !.ok = TRUE, !.tiles = tiles]
       IN  IF ~o.subdomains
           THEN /\ reqs' = [reqs EXCEPT ![r] = [q EXCEPT !.pc = "rejected",
                                                         !.err = "Params"]]
                /\ UNCHANGED <<fetches, CONTROLCACHE>>
           ELSE LET started == layoutFetches(fetches, CONTROLCACHE, r, tiles,
                                             fetchOptions(q), 1)
                IN  /\ reqs' = [reqs EXCEPT ![r] = [q EXCEPT !.pc = "all"]]
                    /\ fetches' = started.fetches
                    /\ CONTROLCACHE' = started.control
    /\ UNCHANGED <<tileImageCache, tileBufferCache, closed, dirty, lru, calc>>

\* Promise.all(fetchTiles).then(imagebits => ...), lines 299-304: every call
\* has resolved; layoutTiles and postProcessingImage make the mosaic
layoutAllResolved(r) ==
    /\ reqs[r].pc = "all"
    /\ \A i \in DOMAIN reqs[r].tiles : fetches[<<r, i>>].outer = "resolved"
    /\ reqs' = [reqs EXCEPT ![r] =
                   [@ EXCEPT !.pc = "output", !.out = "tile",
                             !.images = [i \in DOMAIN reqs[r].tiles |-> "image"]]]
    /\ UNCHANGED <<fetches, CONTROLCACHE, tileImageCache, tileBufferCache, closed,
                   dirty, lru, calc>>

\* Promise.all(fetchTiles)...catch(error => reject(error)), lines 310-312: a
\* call has rejected
layoutAnyRejected(r) ==
    /\ reqs[r].pc = "all"
    /\ \E i \in DOMAIN reqs[r].tiles : fetches[<<r, i>>].outer = "rejected"
    /\ reqs' = [reqs EXCEPT ![r] = [@ EXCEPT !.pc = "rejected", !.err = "Tile"]]
    /\ UNCHANGED <<fetches, CONTROLCACHE, tileImageCache, tileBufferCache, closed,
                   dirty, lru, calc>>

\* createImageBlobURL(...).then(resolve).catch(reject), lines 305-309
layoutOutput(r, encoded) ==
    /\ reqs[r].pc = "output"
    /\ reqs' = [reqs EXCEPT ![r] =
                   IF encoded THEN [@ EXCEPT !.pc = "resolved", !.images = << >>]
                   ELSE [@ EXCEPT !.pc = "rejected", !.err = "Encode", !.images = << >>]]
    /\ UNCHANGED <<fetches, CONTROLCACHE, tileImageCache, tileBufferCache, closed,
                   dirty, lru, calc>>

NextLayout ==
    \/ \E tiles \in LayoutTiles, o \in LayoutOptions, t \in TaskIds :
          layout_Tiles(1, tiles, o, t)
    \/ layoutAllResolved(1)
    \/ layoutAnyRejected(1)
    \/ \E encoded \in BOOLEAN : layoutOutput(1, encoded)
    \/ \E t \in TaskIds : cancelFetch(t)
    \/ \E id \in DOMAIN fetches, ok \in BOOLEAN : FetchResponse(id, ok)
    \/ \E id \in DOMAIN fetches : FetchNetworkError(id)
    \/ \E id \in DOMAIN fetches : FetchAborted(id)
    \/ \E id \in DOMAIN fetches : FetchBlob(id)
    \/ \E id \in DOMAIN fetches : FetchDecodeError(id)
    \/ \E id \in DOMAIN fetches : FetchBody(id)

SpecLayout == Init /\ [][NextLayout]_vars

\* C25: a layout_Tiles request is not rejected because a tile failed to
\* fetch: it is rejected only at the validation of its options or at the
\* encoding of its mosaic.
C25_FailedTilePlaceholder ==
    \A r \in ReqIds :
        reqs[r].pc = "rejected" => reqs[r].err \in {"Params", "Encode"}

(***************************************************************************)
(* Properties of Spec: cancellation groups and the tile loop.              *)
(***************************************************************************)
callsOf(r) == {id \in DOMAIN fetches : id[1] = r}

registered(t) == IF t \in DOMAIN CONTROLCACHE THEN Range(CONTROLCACHE[t]) ELSE {}

\* C1: a cancelFetch(t) step aborts every controller registered under t and
\* changes no other call; afterwards group t is gone from CONTROLCACHE and
\* every other group is what it was.
C1_CancelFetchGroup ==
    [][\A t \in TaskIds :
          cancelFetch(t) =>
              /\ \A id \in DOMAIN fetches :
                    /\ id \in registered(t) => fetches'[id].abort # "none"
                    /\ id \notin registered(t) => fetches'[id] = fetches[id]
              /\ t \notin DOMAIN CONTROLCACHE'
              /\ DOMAIN CONTROLCACHE' = (DOMAIN CONTROLCACHE) \ {t}
              /\ \A u \in DOMAIN CONTROLCACHE' : CONTROLCACHE'[u] = CONTROLCACHE[u]]_vars

\* C1 witness: task T was cancelled with a fetch in flight (aborted, its group gone)
\* while task U keeps its group with a controller that is not aborted.
C1_Witness ==
    /\ "T" \notin DOMAIN CONTROLCACHE
    /\ \E id \in DOMAIN fetches :
          fetches[id].task = "T" /\ fetches[id].abort = "cancel"
    /\ "U" \in DOMAIN CONTROLCACHE
    /\ \A id \in Range(CONTROLCACHE["U"]) :
          fetches[id].task = "U" /\ fetches[id].abort = "none"

\* C2: a request whose awaited tile fetch was rejected by cancelFetch (error
\* FetchCancelError) starts no network retrieval for its next tile.
C2_CancelStopsRequest ==
    [][\A r \in ReqIds :
          ( /\ reqs[r].pc = "fetch"
            /\ reqs[r].gt = "fetch"
            /\ fetches[<<r, reqs[r].loadCount + 1>>].err = "Cancel"
            /\ reqs'[r].loadCount = reqs[r].loadCount + 1 )
          => ~( /\ <<r, reqs[r].loadCount + 2>> \in DOMAIN fetches'
                /\ fetches'[<<r, reqs[r].loadCount + 2>>].net )]_vars

\* C6: CONTROLCACHE holds no empty group and no controller of a call whose
\* promise has settled.
C6_NoSettledToken ==
    \A t \in DOMAIN CONTROLCACHE :
        /\ Len(CONTROLCACHE[t]) > 0
        /\ \A id \in Range(CONTROLCACHE[t]) : fetches[id].outer = "pending"

C8_TileFailureAbsorbed ==
    \A r \in ReqIds :
        /\ \A i \in 1..Len(reqs[r].images) :
              (<<r, i>> \in DOMAIN fetches /\ fetches[<<r, i>>].outer = "rejected")
                  => reqs[r].images[i] = "blank"
        /\ reqs[r].pc = "fetch" =>
              /\ reqs[r].loadCount < Len(reqs[r].tiles)
              /\ Len(reqs[r].images) = reqs[r].loadCount
        /\ reqs[r].pc \in {"output", "resolved", "rejected"} =>
              reqs[r].loadCount = Len(reqs[r].tiles)
        /\ reqs[r].pc = "output" /\ reqs[r].out = "tile" =>
              Len(reqs[r].images) = Len(reqs[r].tiles)
        /\ reqs[r].pc = "rejected" => reqs[r].err = "Encode"

\* C8 witness: a request resolved with a composed tile although the response
\* of its first tile was not ok (NetWorkError).
C8_Witness ==
    \E r \in ReqIds :
        /\ reqs[r].pc = "resolved"
        /\ reqs[r].out = "tile"
        /\ <<r, 1>> \in DOMAIN fetches
        /\ fetches[<<r, 1>>].outer = "rejected"
        /\ fetches[<<r, 1>>].err = "Network"

(***************************************************************************)
(* Properties of SpecOne: the plan of a request and what it fetches.       *)
(***************************************************************************)
\* C9: a request without a plan, or with a plan of no tiles, hands the blank
\* tile to the output, makes no fetchTile call and registers no controller.
C9_NoCoverageBlank ==
    \A r \in ReqIds :
        (reqs[r].pc # "idle" /\ (~reqs[r].ok \/ Len(reqs[r].tiles) = 0))
            => /\ reqs[r].pc \in {"output", "resolved", "rejected"}
               /\ reqs[r].out = "blank"
               /\ callsOf(r) = {}
               /\ \A t \in DOMAIN CONTROLCACHE :
                     \A id \in Range(CONTROLCACHE[t]) : id[1] # r

\* C9 witness: a request for a projection that has no planner resolved with the
\* blank tile.
C9_Witness ==
    /\ reqs[1].pc = "resolved"
    /\ ~reqs[1].ok
    /\ reqs[1].out = "blank"
    /\ fetches = EmptyFn

\* C10: a request for a tile outside the grid of its zoom has no coverage and
\* makes no network retrieval.
C10_OutsideGridNoCoverage ==
    \A r \in ReqIds :
        (reqs[r].pc # "idle" /\ ~inGrid(reqs[r].o.x, reqs[r].o.y, reqs[r].o.z))
            => /\ ~reqs[r].ok \/ Len(reqs[r].tiles) = 0
               /\ \A id \in callsOf(r) : ~fetches[id].net

\* C13: a request whose url template needs subdomains and has none, and whose
\* plan has tiles, is never handed to the output and never resolved: it ends
\* rejected with the parameter-validation error.
C13_InvalidOptionRejects ==
    \A r \in ReqIds :
        (~reqs[r].o.subdomains /\ Len(reqs[r].tiles) > 0) =>
            /\ reqs[r].pc \notin {"output", "resolved"}
            /\ reqs[r].pc = "rejected" => reqs[r].err = "Params"

\* C18: no network retrieval is made for a tile whose column or row is outside
\* 0..2^zoom - 1.
C18_TilesValidated ==
    \A id \in DOMAIN fetches :
        fetches[id].net =>
            inGrid(fetches[id].url[1], fetches[id].url[2], fetches[id].url[3])

\* the controllers of group t in order, none when there is no such group
groupOf(cc, t) == IF t \in DOMAIN cc THEN cc[t] ELSE << >>

\* C30: the step in which the chain of a call ends (finishFetch) takes the
\* controller of that call out of the table and leaves the controllers of all
\* other calls, in every group, as they were and in their order.
C30_FinishRemovesOwnToken ==
    [][\A id \in DOMAIN fetches :
          ( /\ fetches[id].st # "end"
            /\ id \in DOMAIN fetches'
            /\ fetches'[id].st = "end" )
          => \A t \in TaskIds :
                groupOf(CONTROLCACHE', t) =
                    SelectSeq(groupOf(CONTROLCACHE, t), LAMBDA c : c # id)]_vars

\* C30 witness: a call has ended after a retrieval from the network while the
\* controller of a call made before it ended, for the same url and in the same
\* group, is still registered.
C30_Witness ==
    \E id, other \in DOMAIN fetches :
        /\ id # other
        /\ fetches[id].net
        /\ fetches[id].st = "end"
        /\ fetches[id].outer = "resolved"
        /\ fetches[other].url = fetches[id].url
        /\ fetches[other].task = fetches[id].task
        /\ fetches[other].net
        /\ other \in registered(fetches[id].task)

\* C28: loadCount grows by one at a time, only when the awaited tile has
\* settled, and never beyond the number of planned tiles; returnImage is
\* handed a raster (blank or not) at most once; a settled request stays as it
\* is; and when every fetch settles, a request that awaits a tile reaches the
\* output handoff, and from there it settles.
C28_SettlesOnce ==
    /\ [][\A r \in ReqIds :
            /\ reqs'[r].loadCount # reqs[r].loadCount =>
                  /\ reqs'[r].loadCount = reqs[r].loadCount + 1
                  /\ reqs'[r].loadCount <= Len(reqs'[r].tiles)
                  /\ reqs[r].pc = "fetch"
                  /\ tileSettled(r)
            /\ reqs[r].out # "none" => reqs'[r].out = reqs[r].out
            /\ reqs[r].pc = "output" => reqs'[r].pc \in {"output", "resolved", "rejected"}
            /\ reqs[r].pc \in {"resolved", "rejected"} => reqs'[r] = reqs[r]]_vars
    /\ \A r \in ReqIds : (reqs[r].pc = "fetch") ~> (reqs[r].pc = "output")
    /\ \A r \in ReqIds :
          (reqs[r].pc = "output") ~> (reqs[r].pc \in {"resolved", "rejected"})

\* C28 witness: a request of two or more tiles, one fetched and one failed,
\* has reached the output handoff with every tile counted.
C28_Witness ==
    \E r \in ReqIds :
        /\ reqs[r].pc = "output"
        /\ Len(reqs[r].tiles) >= 2
        /\ reqs[r].loadCount = Len(reqs[r].tiles)
        /\ \E i, j \in DOMAIN reqs[r].images :
              reqs[r].images[i] = "image" /\ reqs[r].images[j] = "blank"

\* C29: when layoutTiles has been called for a plan of n tiles, loadCount is
\* n, each of the n tiles carries "image" (its call resolved) or "blank" (its
\* call failed), no call of the request is pending, and the calls of
\* fetchTile made for the request are the n calls 1..n (none when
\* getTileWithMaxZoom rejects the options before it calls fetchTile).
C29_CompositeAfterAllTiles ==
    \A r \in ReqIds :
        ( /\ reqs[r].pc = "output"
          /\ ~noCoverage([ok |-> reqs[r].ok, tiles |-> reqs[r].tiles]) ) =>
            LET n == Len(reqs[r].tiles)
            IN  /\ reqs[r].loadCount = n
                /\ Len(reqs[r].images) = n
                /\ callsOf(r) = IF reqs[r].o.subdomains
                                THEN {<<r, i>> : i \in 1..n} ELSE {}
                /\ \A i \in 1..n :
                      /\ reqs[r].images[i] \in {"image", "blank"}
                      /\ <<r, i>> \in callsOf(r) =>
                            /\ fetches[<<r, i>>].outer # "pending"
                            /\ reqs[r].images[i] = "image"
                                  <=> fetches[<<r, i>>].outer = "resolved"

\* C29 witness: the mosaic of a plan of three tiles is composited, the second
\* tile with the blank placeholder.
C29_Witness ==
    \E r \in ReqIds :
        /\ reqs[r].pc = "output"
        /\ Len(reqs[r].tiles) = 3
        /\ reqs[r].images = <<"image", "blank", "image">>
        /\ Cardinality(callsOf(r)) = 3

(***************************************************************************)
(* Properties of SpecLRU.                                                  *)
(***************************************************************************)
lruKeySet(data) == Range(LRUkeys(data))

usedBefore(uses, j, k) ==
    \E a, b \in DOMAIN uses : a < b /\ uses[a] = j /\ uses[b] = k

\* C3: add of a new key to a full cache evicts exactly one entry, the least
\* recently used one, hands exactly its payload to onRemove, once, and leaves
\* every other entry in place.
C3_EvictsLeastRecentlyUsed ==
    [][( /\ lru'.n = lru.n + 1
         /\ lru'.op = "add"
         /\ lru'.v # NoObj
         /\ Len(lru.data) = lru.max
         /\ ~LRUhas(lru.data, lru'.key) )
       => /\ lru'.removed = <<payloadOf(lru.data, lru.uses[1])>>
          /\ lruKeySet(lru'.data) =
                 (lruKeySet(lru.data) \ {lru.uses[1]}) \cup {lru'.key}
          /\ \A k \in lruKeySet(lru.data) \ {lru.uses[1]} :
                 payloadOf(lru'.data, k) = payloadOf(lru.data, k)]_vars

\* C4: of two keys held, the one used (added or read by get) more recently is
\* not evicted before the other.
C4_GetPromotes ==
    [][( /\ lru'.n = lru.n + 1
         /\ lru'.op = "add" )
       => \A j, k \in lruKeySet(lru.data) :
              ( /\ usedBefore(lru.uses, j, k)
                /\ k \notin lruKeySet(lru'.data) )
              => j \notin lruKeySet(lru'.data)]_vars

\* the payloads a Map holds
lruPayloads(data) == {data[i].v : i \in DOMAIN data}

\* how often onRemove was handed v by the last call
timesRemoved(removed, v) == Cardinality({i \in DOMAIN removed : removed[i] = v})

\* C23: add of a payload under a key that is present hands the payload that
\* was replaced to onRemove, exactly once, and leaves exactly one entry for
\* the key, holding the payload just written.
C23_ReplacedPayloadReleased ==
    [][( /\ lru'.n = lru.n + 1
         /\ lru'.op = "add"
         /\ lru'.v # NoObj
         /\ LRUhas(lru.data, lru'.key) )
       => /\ timesRemoved(lru'.removed, payloadOf(lru.data, lru'.key)) = 1
          /\ Cardinality({i \in DOMAIN lru'.data : lru'.data[i].k = lru'.key}) = 1
          /\ payloadOf(lru'.data, lru'.key) = lru'.v]_vars

\* C24: after every call the Map holds at most max entries, and every payload
\* that left the Map in an add (other than the one the add replaced), a
\* setMaxSize, a remove or a reset was handed to onRemove exactly once.
C24_FixedCapacity ==
    [][lru'.n = lru.n + 1
       => /\ Len(lru'.data) <= lru'.max
          /\ lru'.op \in {"add", "setMaxSize", "remove", "reset"} =>
                LET replaced == IF lru'.op = "add" /\ lru'.v # NoObj
                                THEN {payloadOf(lru.data, lru'.key)} ELSE {}
                    left == (lruPayloads(lru.data) \ lruPayloads(lru'.data)) \ replaced
                IN  \A v \in left : timesRemoved(lru'.removed, v) = 1]_vars

\* C24 witness: an add to a full Map has evicted one payload and handed it to
\* onRemove, and the Map is full again.
C24_Witness ==
    /\ lru.op = "add"
    /\ Len(lru.removed) = 1
    /\ Len(lru.data) = lru.max
    /\ lru.removed[1] \notin lruPayloads(lru.data)

(***************************************************************************)
(* Properties of SpecFetch.                                                *)
(***************************************************************************)
cachedPayloads ==
    {tileImageCache[i].v : i \in DOMAIN tileImageCache}
        \cup {tileBufferCache[i].v : i \in DOMAIN tileBufferCache}

\* C5: no call resolves with an object a cache holds, and no object a cache
\* holds is one a caller was able to write to.
C5_ReturnsDuplicate ==
    /\ \A id \in DOMAIN fetches :
          fetches[id].outer = "resolved" => fetches[id].obj \notin cachedPayloads
    /\ cachedPayloads \cap dirty = {}

\* C14: a call whose timer ran while it was pending and not aborted has the
\* abort reason FetchTimeoutError, does not resolve, and once its chain has
\* ended it is rejected and its controller is in no group.
C14_TimeoutFailsCall ==
    \A id \in DOMAIN fetches :
        fetches[id].timer = "fired" =>
            /\ fetches[id].abort = "timeout"
            /\ fetches[id].outer # "resolved"
            /\ fetches[id].st = "end" =>
                  /\ fetches[id].outer = "rejected"
                  /\ \A t \in DOMAIN CONTROLCACHE : id \notin Range(CONTROLCACHE[t])

\* C15: once a call has settled its timer is not pending any more, and no timer
\* runs for a call that had settled.
C15_TimerCleared ==
    \A id \in DOMAIN fetches :
        fetches[id].outer # "pending" => fetches[id].timer \notin {"armed", "late"}

\* C17: the then-handler of a miss with disableCache leaves both caches as they
\* were; without disableCache the cache of the call holds the url afterwards,
\* with the payload of this call.
C17_DisableCacheFrame ==
    [][\A id \in DOMAIN fetches :
          ( /\ fetches[id].st \in {"body", "decode"}
            /\ fetches'[id].st = "end"
            /\ fetches'[id].src = NetObj(id) )
          => IF fetches[id].nocache
             THEN /\ tileImageCache' = tileImageCache
                  /\ tileBufferCache' = tileBufferCache
                  /\ closed' = closed
             ELSE LET cache == IF fetches[id].kind = "image"
                               THEN tileImageCache' ELSE tileBufferCache'
                  IN  /\ LRUhas(cache, fetches[id].url)
                      /\ payloadOf(cache, fetches[id].url) = NetObj(id)]_vars

\* C17 witness: a miss with disableCache has resolved from the network and its
\* url is in neither cache, while another call has left its url in a cache.
C17_Witness ==
    /\ \E id \in DOMAIN fetches :
          /\ fetches[id].nocache
          /\ fetches[id].net
          /\ fetches[id].outer = "resolved"
          /\ ~LRUhas(tileImageCache, fetches[id].url)
          /\ ~LRUhas(tileBufferCache, fetches[id].url)
    /\ Len(tileImageCache) + Len(tileBufferCache) > 0

\* C27: nothing of a call that was rejected with a Network error is in a
\* cache: its payload was not stored, so that the next call for its url
\* is a miss again.
C27_FailureNotCached ==
    \A id \in DOMAIN fetches :
        (fetches[id].outer = "rejected" /\ fetches[id].err = "Network") =>
            NetObj(id) \notin cachedPayloads

Pixels == {0, 1, 2}

\* data[idx] of a Uint8ClampedArray: undefined outside the array, which the
\* alpha test reads as not > 0 and an assignment stores as 0
dataAt(data, i) == IF i \in DOMAIN data THEN data[i] ELSE 0

\* data[idx] = v: an assignment outside the array is ignored
dataPut(data, i, v) == IF i \in DOMAIN data THEN [data EXCEPT ![i] = v] ELSE data

\* lines 331-340
leftIsBlank(data, width, height) ==
    \A row \in 1..height : ~(dataAt(data, width * (row - 1)) > 0)

\* lines 341-350
colIsBlank(data, width, height, col) ==
    \A row \in 1..height : ~(dataAt(data, width * (row - 1) + (col - 1)) > 0)

\* lines 363-372
bottomIsBlank(data, width, height) ==
    \A col \in 1..width : ~(dataAt(data, (col - 1) + (height - 1) * width) > 0)

\* the loop of lines 426-438 from row on
RECURSIVE fixColRows(_, _, _, _, _, _)
fixColRows(data, width, height, col1, col2, row) ==
    IF row > height THEN data
    ELSE LET idx1 == width * (row - 1) + (col1 - 1)
             idx2 == width * (row - 1) + (col2 - 1)
         IN  fixColRows(dataPut(data, idx1, dataAt(data, idx2)),
                        width, height, col1, col2, row + 1)

\* fixCol that copies the first row only
fixColFirstRow(data, width, height, col1, col2) ==
    dataPut(data, col1 - 1, dataAt(data, col2 - 1))

\* fixCol, lines 425-439: column col1 becomes a copy of column col2
fixCol(data, width, height, col1, col2) ==
    fixColRows(data, width, height, col1, col2, 1)

\* fixLeft, were the left column copied whether blank or not
fixLeftAlways(data, width, height) == fixColRows(data, width, height, 1, 2, 1)

\* lines 373-387: a blank left column becomes a copy of the second column
fixLeft(data, width, height) ==
    IF leftIsBlank(data, width, height)
    THEN fixColRows(data, width, height, 1, 2, 1)
    ELSE data

\* the loop of lines 389-401 from col on
RECURSIVE fixBottomCols(_, _, _, _)
fixBottomCols(data, width, height, col) ==
    IF col > width THEN data
    ELSE LET idx1 == (col - 1) + (height - 1) * width
             idx2 == (col - 1) + (height - 2) * width
         IN  fixBottomCols(dataPut(data, idx1, dataAt(data, idx2)),
                           width, height, col + 1)

\* fixBottom, were the bottom row copied whether blank or not
fixBottomAlways(data, width, height) == fixBottomCols(data, width, height, 1)

\* lines 388-402: a blank bottom row becomes a copy of the row above it
fixBottom(data, width, height) ==
    IF bottomIsBlank(data, width, height)
    THEN fixBottomCols(data, width, height, 1)
    ELSE data

\* lines 419-422, taken after the two border repairs; colBlanks[i] of the
\* source is colBlanksOf(..)[i + 1]
colBlanksOf(data, width, height) ==
    [col \in 1..width |-> colIsBlank(data, width, height, col)]

\* colBlanks[i] as a condition: undefined outside the array, which is falsy
blankAt(colBlanks, i) == IF i + 1 \in DOMAIN colBlanks THEN colBlanks[i + 1] ELSE FALSE

\* the loop of lines 440-452 from col on; pre reads colBlanks[col - 1], the
\* entry current reads
RECURSIVE fixBlankCols(_, _, _, _, _)
fixBlankCols(data, colBlanks, width, height, col) ==
    IF col > width THEN data
    ELSE LET current == blankAt(colBlanks, col - 1)
             next    == blankAt(colBlanks, col)
             pre     == blankAt(colBlanks, col - 1)
             fixed   == IF ~current THEN data
                        ELSE IF ~next THEN fixCol(data, width, height, col, col + 1)
                        ELSE IF ~pre THEN fixCol(data, width, height, col, col - 1)
                        ELSE data
         IN  fixBlankCols(fixed, colBlanks, width, height, col + 1)

\* the pixels fixCol(col1, col2) reads, lines 426-432: for each row the index
\* idx2 / 4 of the pixel read
fixColReads(width, height, col2) ==
    { [row |-> row, idx |-> width * (row - 1) + (col2 - 1)] : row \in 1..height }

\* the pixels the loop of lines 440-452 reads from col on
RECURSIVE blankColReads(_, _, _, _)
blankColReads(colBlanks, width, height, col) ==
    IF col > width THEN {}
    ELSE LET current == blankAt(colBlanks, col - 1)
             next    == blankAt(colBlanks, col)
             pre     == blankAt(colBlanks, col - 1)
             reads   == IF ~current THEN {}
                        ELSE IF ~next THEN fixColReads(width, height, col + 1)
                        ELSE IF ~pre THEN fixColReads(width, height, col - 1)
                        ELSE {}
         IN  reads \cup blankColReads(colBlanks, width, height, col + 1)

\* the pixels lines 419-454 of checkBoundaryBlank read as the source of a copy
seamReads(data, width, height) ==
    LET d2        == fixBottom(fixLeft(data, width, height), width, height)
        colBlanks == colBlanksOf(d2, width, height)
    IN  IF \E col \in 1..width : colBlanks[col]
        THEN blankColReads(colBlanks, width, height, 1)
        ELSE {}

\* checkBoundaryBlank, lines 325-455: the pixel array handed to putImageData
checkBoundaryBlank(data, width, height) ==
    LET d1        == fixLeft(data, width, height)
        d2        == fixBottom(d1, width, height)
        colBlanks == colBlanksOf(d2, width, height)
        hasColBlank == \E col \in 1..width : colBlanks[col]
    IN  IF hasColBlank
        THEN fixBlankCols(d2, colBlanks, width, height, 1)
        ELSE d2

(***************************************************************************)
(* SpecPure: the functions of the pipeline that depend on their arguments  *)
(* only, each evaluated once on an input drawn from a bounded set.         *)
(*                                                                         *)
(*   calc.fn    the function, calc.input its arguments,                    *)
(*   calc.done  whether it has been evaluated, calc.out its result         *)
(***************************************************************************)
ZoomInputs ==
    { [x |-> x, y |-> y, z |-> z, maxAvailableZoom |-> m] :
        x \in -1..(2^ZoomMax - 1), y \in 0..(2^ZoomMax - 1),
        z \in 0..ZoomMax, m \in 0..ZoomMax }

\* the rasters checkBoundaryBlank is run on
SeamInputs == [0..(SeamWidth * SeamHeight - 1) -> Pixels]

\* the ranges [min, max] of the points of the pixels along one axis: from 0
\* to an extent, or NaN when a point is NaN
PixelRanges == { <<Num(0), Num(d)>> : d \in 0..MaxExtent } \cup { <<jsNaN, jsNaN>> }

\* the box of tilesImageData (lines 228, 239-242, 258): the ranges of the
\* points, or [Infinity, Infinity, -Infinity, -Infinity] without pixels
PixelBoxes ==
    { <<px[1], py[1], px[2], py[2]>> : px \in PixelRanges, py \in PixelRanges }
    \cup { <<jsInfinity, jsInfinity, jsNegInfinity, jsNegInfinity>> }

\* the ranges of the box of the tile along one axis: ordered, of an extent of
\* a multiple of TILESIZE, NaN, or unbounded below
TileRanges ==
    { <<Num(0), Num(TILESIZE * a)>> : a \in 0..MaxExtent }
    \cup { <<jsNaN, jsNaN>>, <<jsNegInfinity, Num(0)>> }

TileBoxes ==
    { <<tx[1], ty[1], tx[2], ty[2]>> : tx \in TileRanges, ty \in TileRanges }

TransformInputs == { [bbox |-> b, mbbox |-> m] : b \in PixelBoxes, m \in TileBoxes }

\* the tiles tile4326BBOX is evaluated on
TileInputs ==
    { i \in [x : -1..(2^ZoomMax), y : -1..(2^ZoomMax), z : 0..ZoomMax] :
        i.x <= 2^(i.z) /\ i.y <= 2^(i.z) }

\* the arguments of cal4326Tiles
PlanInputs ==
    { i \in [x : -1..(2^OneZoom), y : -1..(2^OneZoom), z : 0..OneZoom,
             zoomOffset : -1..1] :
        i.x <= 2^(i.z) /\ i.y <= 2^(i.z) /\ i.z + i.zoomOffset >= 0 }

PureInputs ==
    { [fn |-> "getTileWithMaxZoom", input |-> i, done |-> FALSE, out |-> << >>] :
        i \in {j \in ZoomInputs : j.x < 2^(j.z) /\ j.y < 2^(j.z)} }
    \cup
    { [fn |-> "checkBoundaryBlank", input |-> d, done |-> FALSE, out |-> << >>] :
        d \in SeamInputs }
    \cup
    { [fn |-> "edges", input |-> d, done |-> FALSE, out |-> << >>] :
        d \in SeamInputs }
    \cup
    { [fn |-> "transformTiles", input |-> i, done |-> FALSE, out |-> << >>] :
        i \in TransformInputs }
    \cup
    { [fn |-> "tile4326BBOX", input |-> i, done |-> FALSE, out |-> << >>] :
        i \in TileInputs }
    \cup
    { [fn |-> "cal4326Tiles", input |-> i, done |-> FALSE, out |-> << >>] :
        i \in PlanInputs }

InitPure ==
    /\ reqs = [r \in ReqIds |-> IdleReq]
    /\ fetches = EmptyFn
    /\ CONTROLCACHE = EmptyFn
    /\ tileImageCache = << >>
    /\ tileBufferCache = << >>
    /\ closed = {}
    /\ dirty = {}
    /\ lru = 0
    /\ calc \in PureInputs

\* the record of an evaluation that returned out
evaluated(out) == [calc EXCEPT !.done = TRUE, !.out = out]

\* getTileWithMaxZoom, lines 205-240: the tile fetched and the window cropped
EvalMaxZoom ==
    /\ calc.fn = "getTileWithMaxZoom"
    /\ ~calc.done
    /\ LET i == calc.input
       IN  calc' = evaluated(
                     [tile   |-> maxZoomTile(i.x, i.y, i.z, i.maxAvailableZoom),
                      window |-> maxZoomWindow(i.x, i.y, i.z, i.maxAvailableZoom)])
    /\ UNCHANGED <<reqs, fetches, CONTROLCACHE, tileImageCache, tileBufferCache,
                   closed, dirty, lru>>

\* checkBoundaryBlank, lines 325-455: the raster after the repair
EvalCheckBoundaryBlank ==
    /\ calc.fn = "checkBoundaryBlank"
    /\ ~calc.done
    /\ calc' = evaluated(checkBoundaryBlank(calc.input, SeamWidth, SeamHeight))
    /\ UNCHANGED <<reqs, fetches, CONTROLCACHE, tileImageCache, tileBufferCache,
                   closed, dirty, lru>>

\* transformTiles and the raster loadTile hands to returnImage from it,
\* part_000 lines 266-279 and 490-498
EvalTransformTiles ==
    /\ calc.fn = "transformTiles"
    /\ ~calc.done
    /\ LET i      == calc.input
           image1 == transformTiles(i.bbox, i.mbbox)
       IN  calc' = evaluated([size    |-> transformSize(i.bbox, i.mbbox),
                              image1  |-> image1,
                              opImage |-> orBlankTile(image1)])
    /\ UNCHANGED <<reqs, fetches, CONTROLCACHE, tileImageCache, tileBufferCache,
                   closed, dirty, lru>>

\* tile4326BBOX (lines 29-48), and the index range cal4326Tiles (lines
\* 109-121) computes from that box at the same zoom
EvalTile4326BBOX ==
    /\ calc.fn = "tile4326BBOX"
    /\ ~calc.done
    /\ LET i == calc.input
           b == tile4326BBOX(i.x, i.y, i.z)
       IN  calc' = evaluated([bbox |-> b, index |-> index4326(b, tileRes4326(i.z))])
    /\ UNCHANGED <<reqs, fetches, CONTROLCACHE, tileImageCache, tileBufferCache,
                   closed, dirty, lru>>

\* cal4326Tiles, lines 107-151: the plan
EvalCal4326Tiles ==
    /\ calc.fn = "cal4326Tiles"
    /\ ~calc.done
    /\ LET i == calc.input
       IN  calc' = evaluated(cal4326Tiles(i.x, i.y, i.z, i.zoomOffset))
    /\ UNCHANGED <<reqs, fetches, CONTROLCACHE, tileImageCache, tileBufferCache,
                   closed, dirty, lru>>

\* the two border repairs of checkBoundaryBlank, lines 373-402: the raster
\* after the first and after the second
EvalEdgeRepair ==
    /\ calc.fn = "edges"
    /\ ~calc.done
    /\ LET d1 == fixLeft(calc.input, SeamWidth, SeamHeight)
       IN  calc' = evaluated([left   |-> d1,
                              bottom |-> fixBottom(d1, SeamWidth, SeamHeight)])
    /\ UNCHANGED <<reqs, fetches, CONTROLCACHE, tileImageCache, tileBufferCache,
                   closed, dirty, lru>>

NextPure ==
    \/ EvalMaxZoom
    \/ EvalCheckBoundaryBlank
    \/ EvalEdgeRepair
    \/ EvalTransformTiles
    \/ EvalTile4326BBOX
    \/ EvalCal4326Tiles

SpecPure == InitPure /\ [][NextPure]_vars

\* C11: the tile getTileWithMaxZoom fetches has a zoom <= maxAvailableZoom, and
\* is the requested tile when z <= maxAvailableZoom.
C11_NeverFinerThanMaxZoom ==
    (calc.fn = "getTileWithMaxZoom" /\ calc.done) =>
        /\ calc.out.tile[3] <= calc.input.maxAvailableZoom
        /\ calc.input.z <= calc.input.maxAvailableZoom =>
              calc.out.tile = <<calc.input.x, calc.input.y, calc.input.z>>

\* C11 witness: a tile two zooms finer than maxAvailableZoom was asked for.
C11_Witness ==
    /\ calc.fn = "getTileWithMaxZoom"
    /\ calc.done
    /\ calc.input.z = calc.input.maxAvailableZoom + 2
    /\ calc.out.tile[3] = calc.input.maxAvailableZoom

\* C12: k > 0 zooms beyond maxAvailableZoom, the tile fetched is the ancestor
\* (floor(x / 2^k), floor(y / 2^k), maxAvailableZoom) and the window is
\* dx = (x mod 2^k) / 2^k, dy = (y mod 2^k) / 2^k, w = h = 1 / 2^k, inside the
\* ancestor: 0 <= dx, 0 <= dy, dx + w <= 1, dy + h <= 1.
C12_AncestorWindow ==
    ( /\ calc.fn = "getTileWithMaxZoom"
      /\ calc.done
      /\ calc.input.z > calc.input.maxAvailableZoom ) =>
        LET i == calc.input
            k == i.z - i.maxAvailableZoom
            w == calc.out.window
        IN  /\ calc.out.tile = <<i.x \div (2^k), i.y \div (2^k), i.maxAvailableZoom>>
            /\ w.dw = 2^k
            /\ w.dh = 2^k
            /\ w.dxn = i.x % (2^k)
            /\ w.dyn = i.y % (2^k)
            /\ 0 <= w.dxn /\ w.dxn + 1 <= w.dw
            /\ 0 <= w.dyn /\ w.dyn + 1 <= w.dh

\* C12 witness: tile (3, 2) two zooms beyond maxAvailableZoom: ancestor (0, 0),
\* window a quarter wide and high at dx = 3/4, dy = 2/4.
C12_Witness ==
    /\ calc.fn = "getTileWithMaxZoom"
    /\ calc.done
    /\ calc.input.z = calc.input.maxAvailableZoom + 2
    /\ calc.input.x = 3
    /\ calc.input.y = 2
    /\ calc.out.tile[1] = 0
    /\ calc.out.window = [dxn |-> 3, dyn |-> 2, dw |-> 4, dh |-> 4]

\* pixel of column col, row row of a raster
pixel(data, col, row) == data[SeamWidth * (row - 1) + (col - 1)]

\* column c1 of raster d1 equals column c2 of raster d2, row by row
sameCol(d1, c1, d2, c2) ==
    \A row \in 1..SeamHeight : pixel(d1, c1, row) = pixel(d2, c2, row)

blankIn(data, col) == colIsBlank(data, SeamWidth, SeamHeight, col)

\* C16: a column that is fully transparent, is neither the first nor the last
\* and has two neighbours that are not fully transparent, is after
\* checkBoundaryBlank equal row by row to one of its neighbours and no longer
\* fully transparent.
C16_InteriorGapFilled ==
    (calc.fn = "checkBoundaryBlank" /\ calc.done) =>
        \A col \in 2..(SeamWidth - 1) :
            ( /\ blankIn(calc.input, col)
              /\ ~blankIn(calc.input, col - 1)
              /\ ~blankIn(calc.input, col + 1) ) =>
                /\ \/ sameCol(calc.out, col, calc.out, col + 1)
                   \/ sameCol(calc.out, col, calc.out, col - 1)
                /\ ~blankIn(calc.out, col)

\* C16 witness: the middle column was transparent between two columns that
\* differ in every row, and has become the column after it.
C16_Witness ==
    /\ calc.fn = "checkBoundaryBlank"
    /\ calc.done
    /\ blankIn(calc.input, 2)
    /\ \A row \in 1..SeamHeight :
          /\ pixel(calc.input, 1, row) = 1
          /\ pixel(calc.input, 3, row) = 2
    /\ sameCol(calc.out, 2, calc.input, 3)

\* C19: a fully transparent column that is neither first nor last, whose next
\* column is fully transparent and whose previous column is not, is after
\* checkBoundaryBlank equal row by row to its previous column.
C19_CopiesFromPrevious ==
    (calc.fn = "checkBoundaryBlank" /\ calc.done) =>
        \A col \in 2..(SeamWidth - 1) :
            ( /\ blankIn(calc.input, col)
              /\ blankIn(calc.input, col + 1)
              /\ ~blankIn(calc.input, col - 1) ) =>
                sameCol(calc.out, col, calc.out, col - 1)

\* a size that is NaN, not finite, or not above 0
badSize(a) == a.k # "num" \/ a.v <= 0

\* C20: when the width or the height transformTiles computes is NaN, not
\* finite, or <= 0, transformTiles returns no raster (undefined) and the image
\* handed to returnImage, with which the request resolves, is the blank tile.
C20_DegenerateGivesBlank ==
    (calc.fn = "transformTiles" /\ calc.done) =>
        ( (badSize(calc.out.size.width) \/ badSize(calc.out.size.height)) =>
            /\ calc.out.image1 = "undefined"
            /\ calc.out.opImage = "blank" )

\* C20 witness: a width that rounds down to 0 beside a height above 0 has
\* given the blank tile.
C20_Witness ==
    /\ calc.fn = "transformTiles"
    /\ calc.done
    /\ calc.out.size.width = Num(0)
    /\ calc.input.bbox[3] = Num(1)
    /\ calc.out.size.height.k = "num"
    /\ calc.out.size.height.v > 0
    /\ calc.out.opImage = "blank"

\* C21: the box of tile4326BBOX(col, row, zoom), converted back by the index
\* conversion of the planner at the same zoom, gives col from its min x and
\* row from its y edge (the north edge, or else the south edge).
C21_BBoxRoundTrip ==
    (calc.fn = "tile4326BBOX" /\ calc.done) =>
        /\ calc.out.index[1] = calc.input.x
        /\ \/ calc.out.index[3] = calc.input.y
           \/ calc.out.index[4] = calc.input.y

\* C22: the tiles of cal4326Tiles are the inclusive index range of the box of
\* the mercator tile on the geodetic grid of zoom z + zoomOffset, with col
\* shifted by -1 and labelled z + zoomOffset.
C22_RangeAtLabelledZoom ==
    (calc.fn = "cal4326Tiles" /\ calc.done) =>
        LET i    == calc.input
            zoom == i.z + i.zoomOffset
            r    == index4326(mercBBOX(i.x, i.y, i.z), tileRes4326(zoom))
        IN  calc.out.ok =>
                calc.out.tiles = rangeTiles(r[1], r[2], r[3], r[4], -1, zoom)

\* the last row of a raster is fully transparent
bottomBlankIn(data) == \A col \in 1..SeamWidth : pixel(data, col, SeamHeight) = 0

\* C26: the first repair makes every pixel of a fully transparent first column
\* the pixel of the second column in its row and changes nothing else, and
\* changes nothing when the first column is not fully transparent; the second
\* repair makes every pixel of a fully transparent last row the pixel of the
\* row above it in its column and changes nothing else, and changes nothing
\* when the last row is not fully transparent.
C26_EdgeRepair ==
    (calc.fn = "edges" /\ calc.done) =>
        LET d0 == calc.input
            d1 == calc.out.left
            d2 == calc.out.bottom
        IN  /\ \A col \in 1..SeamWidth, row \in 1..SeamHeight :
                  pixel(d1, col, row) =
                      IF col = 1 /\ blankIn(d0, 1)
                      THEN pixel(d0, 2, row) ELSE pixel(d0, col, row)
            /\ bottomBlankIn(d1) = bottomBlankIn(d0)
            /\ \A col \in 1..SeamWidth, row \in 1..SeamHeight :
                  pixel(d2, col, row) =
                      IF row = SeamHeight /\ bottomBlankIn(d0)
                      THEN pixel(d1, col, SeamHeight - 1) ELSE pixel(d1, col, row)

\* C26 witness: the first column and the last row were fully transparent; the
\* first column has become the second and the last row the row above it.
C26_Witness ==
    /\ calc.fn = "edges"
    /\ calc.done
    /\ blankIn(calc.input, 1)
    /\ bottomBlankIn(calc.input)
    /\ pixel(calc.input, 2, 1) = 1
    /\ pixel(calc.input, 3, 1) = 2
    /\ pixel(calc.out.bottom, 1, 1) = 1
    /\ pixel(calc.out.bottom, 3, SeamHeight) = pixel(calc.input, 3, SeamHeight - 1)
    /\ ~bottomBlankIn(calc.out.bottom)

\* C31: every pixel the repair of the columns reads as the source of a copy
\* lies inside the raster and in the row of the pixel it is written to.
C31_ReadsInsideRow ==
    (calc.fn = "checkBoundaryBlank" /\ calc.done) =>
        \A p \in seamReads(calc.input, SeamWidth, SeamHeight) :
            /\ p.idx >= SeamWidth * (p.row - 1)
            /\ p.idx <= SeamWidth * p.row - 1

\* C32: a pixel that is neither in a fully transparent column nor in a fully
\* transparent last row of the raster has after checkBoundaryBlank the value
\* it had before.
C32_NothingElseChanged ==
    (calc.fn = "checkBoundaryBlank" /\ calc.done) =>
        \A col \in 1..SeamWidth, row \in 1..SeamHeight :
            ( /\ ~blankIn(calc.input, col)
              /\ ~(row = SeamHeight /\ bottomBlankIn(calc.input)) ) =>
                pixel(calc.out, col, row) = pixel(calc.input, col, row)

\* C32 witness: the middle column was fully transparent and has been filled,
\* the columns beside it, opaque in every row, are as they were.
C32_Witness ==
    /\ calc.fn = "checkBoundaryBlank"
    /\ calc.done
    /\ blankIn(calc.input, 2)
    /\ ~blankIn(calc.out, 2)
    /\ \A row \in 1..SeamHeight :
          /\ pixel(calc.input, 1, row) = 2
          /\ pixel(calc.out, 1, row) = 2
          /\ pixel(calc.input, 3, row) = 1
          /\ pixel(calc.out, 3, row) = 1

====
